---- MODULE Spec2Model ----
(***************************************************************************)
(* wordlers: a terminal Wordle.  The model covers the game engine          *)
(* (src/src/game.rs), the dictionary (src/src/words.rs) and the key        *)
(* dispatch of the application (src/src/app.rs).  Painting is left out: it *)
(* reads the game and never writes it.                                     *)
(*                                                                         *)
(* Rust values are modelled as follows.                                    *)
(*   Option<T>     a sequence: <<>> is None, <<x>> is Some(x)              *)
(*   char          a one-character string                                  *)
(*   String, &str  a sequence of chars (1-based; char_indices is 0-based)  *)
(*   [T; n]        a function over 0..n-1                                  *)
(*   Cell          a record [tag, v]: Pending(v), NotInWord(l), ...        *)
(***************************************************************************)
EXTENDS Integers, Sequences, FiniteSets, TLC

VARIABLES
    game,        \* App.game: the Game value owned by the application
    lastCall,    \* what the last App::handle_key did with its key
    ret,         \* value returned by the Game method handle_key called
    nsubmitted,  \* history: rows finalised by check_guess in this game
    crow,        \* BoardRow::check_guess in isolation: the row (self)
    canswer,     \*   its answer argument
    crow0,       \*   the row as it was when check_guess was called
    cpc,         \*   its position: "idle", "call", "loop", "done"
    ctodo        \*   letters of guess_chars the for loop has not yet visited

vars == <<game, lastCall, ret, nsubmitted, crow, canswer, crow0, cpc, ctodo>>
gameVars == <<game, lastCall, ret, nsubmitted>>
checkVars == <<crow, canswer, crow0, cpc, ctodo>>

----------------------------------------------------------------------------
(* Bounds *)

\* Number of letters of the alphabet that keys and enumerated words use.
NumLetters == 2

----------------------------------------------------------------------------
(* Characters *)

LowerAll == <<"a","b","c","d","e","f","g","h","i","j","k","l","m",
              "n","o","p","q","r","s","t","u","v","w","x","y","z">>
UpperAll == <<"A","B","C","D","E","F","G","H","I","J","K","L","M",
              "N","O","P","Q","R","S","T","U","V","W","X","Y","Z">>

Range(s) == {s[i] : i \in DOMAIN s}

is_ascii_alphabetic(c) == c \in Range(LowerAll) \cup Range(UpperAll)

to_ascii_uppercase(c) ==
    IF c \in Range(LowerAll)
    THEN UpperAll[CHOOSE i \in DOMAIN LowerAll : LowerAll[i] = c]
    ELSE c

to_ascii_lowercase(c) ==
    IF c \in Range(UpperAll)
    THEN LowerAll[CHOOSE i \in DOMAIN UpperAll : UpperAll[i] = c]
    ELSE c

\* str::to_ascii_lowercase
str_to_ascii_lowercase(s) == [i \in DOMAIN s |-> to_ascii_lowercase(s[i])]

\* The letters the model types and enumerates.
Alphabet == {LowerAll[i] : i \in 1..NumLetters}
AlphabetWords == [1..5 -> Alphabet]

----------------------------------------------------------------------------
(* Option *)

None == <<>>
Some(x) == <<x>>

----------------------------------------------------------------------------
(* Cell *)

Pending(v) == [tag |-> "Pending", v |-> v]
NotInWord(l) == [tag |-> "NotInWord", v |-> <<l>>]
InWord(l) == [tag |-> "InWord", v |-> <<l>>]
Correct(l) == [tag |-> "Correct", v |-> <<l>>]

Cell_not_in_word(cell) ==
    IF cell.tag = "Pending" /\ cell.v # None THEN NotInWord(cell.v[1]) ELSE cell

Cell_in_word(cell) ==
    IF cell.tag = "Pending" /\ cell.v # None THEN InWord(cell.v[1]) ELSE cell

\* Cell::correct that marks the cell InWord.
Cell_correct_as_in_word(cell) ==
    IF cell.tag = "Pending" /\ cell.v # None THEN InWord(cell.v[1]) ELSE cell

Cell_correct(cell) ==
    IF cell.tag = "Pending" /\ cell.v # None THEN Correct(cell.v[1]) ELSE cell

----------------------------------------------------------------------------
(* Words *)

\* words/wordle-La.txt: the answers.  A small stand-in with repeated letters.
La == { <<"a","b","b","a","b">>, <<"b","a","a","b","a">> }

\* words/wordle-Ta.txt: the further valid guesses.
Ta == { <<"a","a","b","b","a">> }

\* Words::new that collects the valid guesses from wordle-Ta.txt alone.
Words_new_ta_only == [answers |-> La, valid_guesses |-> Ta]

Words_new == [answers |-> La, valid_guesses |-> La \cup Ta]

Words_valid_guess(words, word) == word \in words.valid_guesses

----------------------------------------------------------------------------
(* BoardRow *)

BoardRow_empty == [cells |-> [i \in 0..4 |-> Pending(None)], current_cell |-> None]

RECURSIVE final_word_from_as_typed(_, _, _)
\* get_final_word without its to_ascii_lowercase.
final_word_from_as_typed(cells, i, word) ==
    IF i > 4 THEN Some(word)
    ELSE IF cells[i] = Pending(None) THEN None
    ELSE final_word_from_as_typed(cells, i + 1, Append(word, cells[i].v[1]))

RECURSIVE final_word_from(_, _, _)
\* The loop of get_final_word from cell i on, word being the letters so far.
final_word_from(cells, i, word) ==
    IF i > 4 THEN Some(str_to_ascii_lowercase(word))
    ELSE IF cells[i] = Pending(None) THEN None
    ELSE final_word_from(cells, i + 1, Append(word, cells[i].v[1]))

BoardRow_get_final_word(row) == final_word_from(row.cells, 0, <<>>)

\* try_accept_letter with <= for < in the test of the cursor.
BoardRow_try_accept_letter_le(row, letter) ==
    IF row.current_cell # None
    THEN LET i == row.current_cell[1] IN
         IF i <= 5
         THEN [row |-> [cells |-> [row.cells EXCEPT ![i] = Pending(Some(letter))],
                        current_cell |-> Some(i + 1)],
               ret |-> TRUE]
         ELSE [row |-> row, ret |-> FALSE]
    ELSE [row |-> row, ret |-> FALSE]

BoardRow_try_accept_letter(row, letter) ==
    IF row.current_cell # None
    THEN LET i == row.current_cell[1] IN
         IF i < 5
         THEN [row |-> [cells |-> [row.cells EXCEPT ![i] = Pending(Some(letter))],
                        current_cell |-> Some(i + 1)],
               ret |-> TRUE]
         ELSE [row |-> row, ret |-> FALSE]
    ELSE [row |-> row, ret |-> FALSE]

\* try_delete_letter that moves the cursor back but leaves the letter.
BoardRow_try_delete_letter_keep_cell(row) ==
    IF row.current_cell # None
    THEN LET i == row.current_cell[1] IN
         IF i > 0
         THEN [row |-> [row EXCEPT !.current_cell = Some(i - 1)], ret |-> TRUE]
         ELSE [row |-> row, ret |-> FALSE]
    ELSE [row |-> row, ret |-> FALSE]

BoardRow_try_delete_letter(row) ==
    IF row.current_cell # None
    THEN LET i == row.current_cell[1] IN
         IF i > 0
         THEN [row |-> [cells |-> [row.cells EXCEPT ![i - 1] = Pending(None)],
                        current_cell |-> Some(i - 1)],
               ret |-> TRUE]
         ELSE [row |-> row, ret |-> FALSE]
    ELSE [row |-> row, ret |-> FALSE]

RECURSIVE char_map_from(_, _, _)
\* The fold of get_char_map from the k-th char of s on: each char's entry
\* gets the 0-based index pushed, so every entry is in ascending order.
char_map_from(s, k, map) ==
    IF k > Len(s) THEN map
    ELSE LET c == s[k]
             entry == IF c \in DOMAIN map THEN map[c] ELSE <<>>
         IN char_map_from(s, k + 1,
                [d \in (DOMAIN map) \cup {c} |->
                    IF d = c THEN Append(entry, k - 1) ELSE map[d]])

get_char_map(s) == char_map_from(s, 1, << >>)

RECURSIVE exact_matches_uncounted(_, _, _, _, _, _)
\* exact_matches that forgets to count a green in num_reported.
exact_matches_uncounted(cells, guess_indices, answer_indices, k, num_reported, potential_yellows) ==
    IF k > Len(guess_indices)
    THEN [cells |-> cells, num_reported |-> num_reported,
          potential_yellows |-> potential_yellows]
    ELSE LET i == guess_indices[k] IN
         IF i \in Range(answer_indices)
         THEN exact_matches_uncounted([cells EXCEPT ![i] = Cell_correct(@)], guess_indices,
                            answer_indices, k + 1, num_reported, potential_yellows)
         ELSE exact_matches_uncounted(cells, guess_indices, answer_indices, k + 1,
                            num_reported, Append(potential_yellows, i))

RECURSIVE exact_matches(_, _, _, _, _, _)
\* First inner loop of check_guess: greens, the rest are potential yellows.
exact_matches(cells, guess_indices, answer_indices, k, num_reported, potential_yellows) ==
    IF k > Len(guess_indices)
    THEN [cells |-> cells, num_reported |-> num_reported,
          potential_yellows |-> potential_yellows]
    ELSE LET i == guess_indices[k] IN
         IF i \in Range(answer_indices)
         THEN exact_matches([cells EXCEPT ![i] = Cell_correct(@)], guess_indices,
                            answer_indices, k + 1, num_reported + 1, potential_yellows)
         ELSE exact_matches(cells, guess_indices, answer_indices, k + 1,
                            num_reported, Append(potential_yellows, i))

RECURSIVE fill_yellows_le(_, _, _, _, _)
\* fill_yellows with <= for < in the test against the answer's count.
fill_yellows_le(cells, potential_yellows, answer_len, k, num_reported) ==
    IF k > Len(potential_yellows) THEN cells
    ELSE LET i == potential_yellows[k] IN
         IF num_reported <= answer_len
         THEN fill_yellows_le([cells EXCEPT ![i] = Cell_in_word(@)], potential_yellows,
                              answer_len, k + 1, num_reported + 1)
         ELSE fill_yellows_le([cells EXCEPT ![i] = Cell_not_in_word(@)], potential_yellows,
                              answer_len, k + 1, num_reported)

RECURSIVE fill_yellows_right_to_left(_, _, _, _, _)
\* fill_yellows visiting the potential yellows from the right.
fill_yellows_right_to_left(cells, potential_yellows, answer_len, k, num_reported) ==
    IF k > Len(potential_yellows) THEN cells
    ELSE LET i == potential_yellows[Len(potential_yellows) + 1 - k] IN
         IF num_reported < answer_len
         THEN fill_yellows_right_to_left([cells EXCEPT ![i] = Cell_in_word(@)],
                  potential_yellows, answer_len, k + 1, num_reported + 1)
         ELSE fill_yellows_right_to_left([cells EXCEPT ![i] = Cell_not_in_word(@)],
                  potential_yellows, answer_len, k + 1, num_reported)

RECURSIVE fill_yellows(_, _, _, _, _)
\* Second inner loop of check_guess: yellows from left to right.
fill_yellows(cells, potential_yellows, answer_len, k, num_reported) ==
    IF k > Len(potential_yellows) THEN cells
    ELSE LET i == potential_yellows[k] IN
         IF num_reported < answer_len
         THEN fill_yellows([cells EXCEPT ![i] = Cell_in_word(@)], potential_yellows,
                           answer_len, k + 1, num_reported + 1)
         ELSE fill_yellows([cells EXCEPT ![i] = Cell_not_in_word(@)], potential_yellows,
                           answer_len, k + 1, num_reported)

\* The else branch of check_guess marking every cell of the row, not only
\* those holding the letter.
all_not_in_word_every_cell(cells, guess_indices, k) ==
    [i \in DOMAIN cells |-> Cell_not_in_word(cells[i])]

RECURSIVE all_not_in_word(_, _, _)
all_not_in_word(cells, guess_indices, k) ==
    IF k > Len(guess_indices) THEN cells
    ELSE all_not_in_word([cells EXCEPT ![guess_indices[k]] = Cell_not_in_word(@)],
                         guess_indices, k + 1)

\* One iteration of the outer loop of check_guess, for one letter of the guess.
check_letter(cells, letter, guess_indices, answer_chars) ==
    IF letter \in DOMAIN answer_chars
    THEN LET answer_indices == answer_chars[letter]
             greens == exact_matches(cells, guess_indices, answer_indices, 1, 0, <<>>)
         IN fill_yellows(greens.cells, greens.potential_yellows,
                         Len(answer_indices), 1, greens.num_reported)
    ELSE all_not_in_word(cells, guess_indices, 1)

RECURSIVE check_letters(_, _, _, _)
\* The outer loop of check_guess visiting the letters in the given order.
check_letters(cells, order, guess_chars, answer_chars) ==
    IF order = <<>> THEN cells
    ELSE check_letters(
            check_letter(cells, Head(order), guess_chars[Head(order)], answer_chars),
            Tail(order), guess_chars, answer_chars)

\* The orders in which a HashMap with the given keys may be iterated.
IterationOrders(keys) ==
    {o \in [1..Cardinality(keys) -> keys] : Range(o) = keys}

\* check_guess run on a copy of the row (BoardRow is Copy): the row itself
\* stays as it was.
BoardRow_check_guess_on_copy(row, answer, order) == row

\* check_guess on a complete row (get_final_word is Some; it panics otherwise),
\* the HashMap guess_chars being iterated in the given order.
BoardRow_check_guess(row, answer, order) ==
    LET guess == BoardRow_get_final_word(row)[1]
    IN [row EXCEPT !.cells =
            check_letters(row.cells, order, get_char_map(guess), get_char_map(answer))]

----------------------------------------------------------------------------
(* Game *)

\* Game::new without its last step: the first row gets no cursor.
Game_new_no_cursor(answer) ==
    [rows |-> [r \in 0..5 |-> BoardRow_empty],
     current_row |-> 0,
     answer |-> answer,
     words |-> Words_new,
     display_message |-> None,
     has_won |-> None]

Game_new(answer) ==
    [rows |-> [[r \in 0..5 |-> BoardRow_empty] EXCEPT ![0].current_cell = Some(0)],
     current_row |-> 0,
     answer |-> answer,
     words |-> Words_new,
     display_message |-> None,
     has_won |-> None]

Game_get_current_row(g) == g.rows[g.current_row]

Game_set_message(g, message) == [g EXCEPT !.display_message = Some(message)]

Game_clear_message(g) == [g EXCEPT !.display_message = None]

\* try_accept_letter that stores the letter as typed (no to_ascii_uppercase).
Game_try_accept_letter_as_typed(g, letter) ==
    LET g1 == Game_clear_message(g) IN
    IF is_ascii_alphabetic(letter)
    THEN LET r == BoardRow_try_accept_letter(Game_get_current_row(g1), letter)
         IN [game |-> [g1 EXCEPT !.rows[g1.current_row] = r.row], ret |-> r.ret]
    ELSE [game |-> g1, ret |-> FALSE]

Game_try_accept_letter(g, letter) ==
    LET g1 == Game_clear_message(g) IN
    IF is_ascii_alphabetic(letter)
    THEN LET r == BoardRow_try_accept_letter(Game_get_current_row(g1),
                                             to_ascii_uppercase(letter))
         IN [game |-> [g1 EXCEPT !.rows[g1.current_row] = r.row], ret |-> r.ret]
    ELSE [game |-> g1, ret |-> FALSE]

\* try_delete_letter without its clear_message.
Game_try_delete_letter_keep_message(g) ==
    LET r == BoardRow_try_delete_letter(Game_get_current_row(g))
    IN [game |-> [g EXCEPT !.rows[g.current_row] = r.row], ret |-> r.ret]

Game_try_delete_letter(g) ==
    LET g1 == Game_clear_message(g)
        r == BoardRow_try_delete_letter(Game_get_current_row(g1))
    IN [game |-> [g1 EXCEPT !.rows[g1.current_row] = r.row], ret |-> r.ret]

\* format!("'{guess}' is not a valid word!")
InvalidWordMessage(guess) == <<"'">> \o guess \o <<"' is not a valid word!">>

\* try_submit_guess testing for the last row before testing for a match.
Game_try_submit_guess_row_first(g, order) ==
    LET g1 == Game_clear_message(g)
        final == BoardRow_get_final_word(Game_get_current_row(g1))
    IN
    IF final # None
    THEN LET guess == final[1] IN
         IF ~Words_valid_guess(g1.words, guess)
         THEN [game |-> Game_set_message(g1, InvalidWordMessage(guess)),
               ret |-> TRUE, checked |-> FALSE]
         ELSE LET g2 == [g1 EXCEPT !.rows[g1.current_row] =
                             BoardRow_check_guess(@, g1.answer, order)]
              IN IF g2.current_row >= 5
                 THEN [game |-> [g2 EXCEPT !.has_won = Some(FALSE)],
                       ret |-> TRUE, checked |-> TRUE]
                 ELSE IF guess = g2.answer
                 THEN [game |-> [g2 EXCEPT !.has_won = Some(TRUE)],
                       ret |-> TRUE, checked |-> TRUE]
                 ELSE [game |-> [g2 EXCEPT !.current_row = @ + 1,
                                           !.rows[g2.current_row + 1].current_cell = Some(0)],
                       ret |-> TRUE, checked |-> TRUE]
    ELSE [game |-> g1, ret |-> FALSE, checked |-> FALSE]

\* try_submit_guess that gives up one row early (< 4 for < 5).
Game_try_submit_guess_five_rows(g, order) ==
    LET g1 == Game_clear_message(g)
        final == BoardRow_get_final_word(Game_get_current_row(g1))
    IN
    IF final # None
    THEN LET guess == final[1] IN
         IF ~Words_valid_guess(g1.words, guess)
         THEN [game |-> Game_set_message(g1, InvalidWordMessage(guess)),
               ret |-> TRUE, checked |-> FALSE]
         ELSE LET g2 == [g1 EXCEPT !.rows[g1.current_row] =
                             BoardRow_check_guess(@, g1.answer, order)]
              IN IF guess = g2.answer
                 THEN [game |-> [g2 EXCEPT !.has_won = Some(TRUE)],
                       ret |-> TRUE, checked |-> TRUE]
                 ELSE IF g2.current_row < 4
                 THEN [game |-> [g2 EXCEPT !.current_row = @ + 1,
                                           !.rows[g2.current_row + 1].current_cell = Some(0)],
                       ret |-> TRUE, checked |-> TRUE]
                 ELSE [game |-> [g2 EXCEPT !.has_won = Some(FALSE)],
                       ret |-> TRUE, checked |-> TRUE]
    ELSE [game |-> g1, ret |-> FALSE, checked |-> FALSE]

\* try_submit_guess that finalises the row before asking whether the word
\* is valid.
Game_try_submit_guess_check_first(g, order) ==
    LET g1 == Game_clear_message(g)
        final == BoardRow_get_final_word(Game_get_current_row(g1))
    IN
    IF final # None
    THEN LET guess == final[1]
             g2 == [g1 EXCEPT !.rows[g1.current_row] =
                        BoardRow_check_guess(@, g1.answer, order)]
         IN
         IF ~Words_valid_guess(g1.words, guess)
         THEN [game |-> Game_set_message(g2, InvalidWordMessage(guess)),
               ret |-> TRUE, checked |-> TRUE]
         ELSE IF guess = g2.answer
              THEN [game |-> [g2 EXCEPT !.has_won = Some(TRUE)],
                    ret |-> TRUE, checked |-> TRUE]
              ELSE IF g2.current_row < 5
              THEN [game |-> [g2 EXCEPT !.current_row = @ + 1,
                                        !.rows[g2.current_row + 1].current_cell = Some(0)],
                    ret |-> TRUE, checked |-> TRUE]
              ELSE [game |-> [g2 EXCEPT !.has_won = Some(FALSE)],
                    ret |-> TRUE, checked |-> TRUE]
    ELSE [game |-> g1, ret |-> FALSE, checked |-> FALSE]

\* try_submit_guess that moves to the next row before it tests for a match.
Game_try_submit_guess_advance_first(g, order) ==
    LET g1 == Game_clear_message(g)
        final == BoardRow_get_final_word(Game_get_current_row(g1))
    IN
    IF final # None
    THEN LET guess == final[1] IN
         IF ~Words_valid_guess(g1.words, guess)
         THEN [game |-> Game_set_message(g1, InvalidWordMessage(guess)),
               ret |-> TRUE, checked |-> FALSE]
         ELSE LET g2 == [g1 EXCEPT !.rows[g1.current_row] =
                             BoardRow_check_guess(@, g1.answer, order)]
                  g3 == IF g2.current_row < 5
                        THEN [g2 EXCEPT !.current_row = @ + 1,
                                        !.rows[g2.current_row + 1].current_cell = Some(0)]
                        ELSE g2
              IN IF guess = g2.answer
                 THEN [game |-> [g3 EXCEPT !.has_won = Some(TRUE)],
                       ret |-> TRUE, checked |-> TRUE]
                 ELSE IF g2.current_row < 5
                 THEN [game |-> g3, ret |-> TRUE, checked |-> TRUE]
                 ELSE [game |-> [g2 EXCEPT !.has_won = Some(FALSE)],
                       ret |-> TRUE, checked |-> TRUE]
    ELSE [game |-> g1, ret |-> FALSE, checked |-> FALSE]

\* try_submit_guess that stays on the submitted row after a miss.
Game_try_submit_guess_same_row(g, order) ==
    LET g1 == Game_clear_message(g)
        final == BoardRow_get_final_word(Game_get_current_row(g1))
    IN
    IF final # None
    THEN LET guess == final[1] IN
         IF ~Words_valid_guess(g1.words, guess)
         THEN [game |-> Game_set_message(g1, InvalidWordMessage(guess)),
               ret |-> TRUE, checked |-> FALSE]
         ELSE LET g2 == [g1 EXCEPT !.rows[g1.current_row] =
                             BoardRow_check_guess(@, g1.answer, order)]
              IN IF guess = g2.answer
                 THEN [game |-> [g2 EXCEPT !.has_won = Some(TRUE)],
                       ret |-> TRUE, checked |-> TRUE]
                 ELSE IF g2.current_row < 5
                 THEN [game |-> g2, ret |-> TRUE, checked |-> TRUE]
                 ELSE [game |-> [g2 EXCEPT !.has_won = Some(FALSE)],
                       ret |-> TRUE, checked |-> TRUE]
    ELSE [game |-> g1, ret |-> FALSE, checked |-> FALSE]

\* order: the iteration order of guess_chars inside check_guess.  The result
\* also tells whether check_guess was called (checked).
Game_try_submit_guess(g, order) ==
    LET g1 == Game_clear_message(g)
        final == BoardRow_get_final_word(Game_get_current_row(g1))
    IN
    IF final # None
    THEN LET guess == final[1] IN
         IF ~Words_valid_guess(g1.words, guess)
         THEN [game |-> Game_set_message(g1, InvalidWordMessage(guess)),
               ret |-> TRUE, checked |-> FALSE]
         ELSE LET g2 == [g1 EXCEPT !.rows[g1.current_row] =
                             BoardRow_check_guess(@, g1.answer, order)]
              IN IF guess = g2.answer
                 THEN [game |-> [g2 EXCEPT !.has_won = Some(TRUE)],
                       ret |-> TRUE, checked |-> TRUE]
                 ELSE IF g2.current_row < 5
                 THEN [game |-> [g2 EXCEPT !.current_row = @ + 1,
                                           !.rows[g2.current_row + 1].current_cell = Some(0)],
                       ret |-> TRUE, checked |-> TRUE]
                 ELSE [game |-> [g2 EXCEPT !.has_won = Some(FALSE)],
                       ret |-> TRUE, checked |-> TRUE]
    ELSE [game |-> g1, ret |-> FALSE, checked |-> FALSE]

\* The iteration orders check_guess may take if the current row is submitted.
SubmitOrders(g) ==
    LET final == BoardRow_get_final_word(Game_get_current_row(g)) IN
    IF final # None THEN IterationOrders(Range(final[1])) ELSE {<<>>}

----------------------------------------------------------------------------
(* App *)

KeyChar(c) == [k |-> "Char", c |-> c]
KeyEnter == KeyChar("\n")
KeyBackspace == [k |-> "Backspace", c |-> ""]
\* Any key handle_key has no arm for (arrows, function keys, ...).
KeyOther == [k |-> "Other", c |-> ""]

WinMessage == <<"You win!\nESC: quit, ENTER: new">>
LoseMessage(answer) == <<"The word was '">> \o answer \o <<"'.\nESC: quit, ENTER: new">>

\* handle_key whose game-over test only sees a won game (has_won() ==
\* Some(true) for has_won().is_some()).
App_handle_key_won_only(g, key, order, fresh) ==
    IF g.has_won = Some(TRUE)
    THEN IF key = KeyEnter
         THEN [game |-> Game_new(fresh), call |-> "restart", ret |-> FALSE]
         ELSE [game |-> g, call |-> "ignored", ret |-> FALSE]
    ELSE LET r == IF key = KeyEnter
                  THEN Game_try_submit_guess(g, order) @@ [call |-> "try_submit_guess"]
                  ELSE IF key.k = "Char"
                  THEN Game_try_accept_letter(g, key.c) @@ [call |-> "try_accept_letter"]
                  ELSE IF key = KeyBackspace
                  THEN Game_try_delete_letter(g) @@ [call |-> "try_delete_letter"]
                  ELSE [game |-> g, ret |-> FALSE, call |-> "none"]
         IN IF r.ret /\ r.game.has_won # None
            THEN [r EXCEPT !.game =
                     IF r.game.has_won = Some(TRUE)
                     THEN Game_set_message(r.game, WinMessage)
                     ELSE Game_set_message(r.game, LoseMessage(r.game.answer))]
            ELSE r

\* handle_key whose restart draws a new answer and reopens the game but
\* keeps the board.
App_handle_key_soft_restart(g, key, order, fresh) ==
    IF g.has_won # None
    THEN IF key = KeyEnter
         THEN [game |-> [g EXCEPT !.answer = fresh, !.has_won = None,
                                   !.display_message = None],
               call |-> "restart", ret |-> FALSE]
         ELSE [game |-> g, call |-> "ignored", ret |-> FALSE]
    ELSE LET r == IF key = KeyEnter
                  THEN Game_try_submit_guess(g, order) @@ [call |-> "try_submit_guess"]
                  ELSE IF key.k = "Char"
                  THEN Game_try_accept_letter(g, key.c) @@ [call |-> "try_accept_letter"]
                  ELSE IF key = KeyBackspace
                  THEN Game_try_delete_letter(g) @@ [call |-> "try_delete_letter"]
                  ELSE [game |-> g, ret |-> FALSE, call |-> "none"]
         IN IF r.ret /\ r.game.has_won # None
            THEN [r EXCEPT !.game =
                     IF r.game.has_won = Some(TRUE)
                     THEN Game_set_message(r.game, WinMessage)
                     ELSE Game_set_message(r.game, LoseMessage(r.game.answer))]
            ELSE r

\* handle_key.  order: iteration order inside check_guess; fresh: the answer
\* Game::new draws if the key restarts.  The result names the Game method
\* called (call) and what it returned (ret; FALSE when none returned a bool).
App_handle_key(g, key, order, fresh) ==
    IF g.has_won # None
    THEN IF key = KeyEnter
         THEN [game |-> Game_new(fresh), call |-> "restart", ret |-> FALSE]
         ELSE [game |-> g, call |-> "ignored", ret |-> FALSE]
    ELSE LET r == IF key = KeyEnter
                  THEN Game_try_submit_guess(g, order) @@ [call |-> "try_submit_guess"]
                  ELSE IF key.k = "Char"
                  THEN Game_try_accept_letter(g, key.c) @@ [call |-> "try_accept_letter"]
                  ELSE IF key = KeyBackspace
                  THEN Game_try_delete_letter(g) @@ [call |-> "try_delete_letter"]
                  ELSE [game |-> g, ret |-> FALSE, call |-> "none"]
         IN IF r.ret /\ r.game.has_won # None
            THEN [r EXCEPT !.game =
                     IF r.game.has_won = Some(TRUE)
                     THEN Game_set_message(r.game, WinMessage)
                     ELSE Game_set_message(r.game, LoseMessage(r.game.answer))]
            ELSE r

----------------------------------------------------------------------------
(* The application: one action per kind of key read by the input loop *)

\* Characters the keyboard sends: letters in both cases and a digit.
TypedChars == Alphabet \cup {to_ascii_uppercase(c) : c \in Alphabet} \cup {"1"}

CheckIdle ==
    /\ crow = BoardRow_empty
    /\ canswer = <<>>
    /\ crow0 = BoardRow_empty
    /\ cpc = "idle"
    /\ ctodo = {}

Init ==
    /\ \E answer \in Words_new.answers : game = Game_new(answer)
    /\ lastCall = "new"
    /\ ret = FALSE
    /\ nsubmitted = 0
    /\ CheckIdle

\* What one handle_key call leaves behind.
Handled(r) ==
    /\ game' = r.game
    /\ lastCall' = r.call
    /\ ret' = r.ret
    /\ nsubmitted' =
          IF r.call = "restart" THEN 0
          ELSE IF r.call = "try_submit_guess" /\ r.checked
          THEN nsubmitted + 1
          ELSE nsubmitted
    /\ UNCHANGED checkVars

PressLetter ==
    \E c \in TypedChars : Handled(App_handle_key(game, KeyChar(c), <<>>, game.answer))

PressBackspace ==
    Handled(App_handle_key(game, KeyBackspace, <<>>, game.answer))

PressOther ==
    Handled(App_handle_key(game, KeyOther, <<>>, game.answer))

\* Enter: submits the row while a game is in progress and restarts with a
\* freshly drawn answer once it is over.
PressEnter ==
    \E order \in SubmitOrders(game), fresh \in Words_new.answers :
        Handled(App_handle_key(game, KeyEnter, order, fresh))

Next ==
    \/ PressLetter
    \/ PressBackspace
    \/ PressOther
    \/ PressEnter

Spec == Init /\ [][Next]_vars

----------------------------------------------------------------------------
(* BoardRow::check_guess on its own, as the unit tests call it: a row of   *)
(* five pending letters and an answer, the letters of the guess visited in *)
(* any order.                                                              *)

\* tests::get_pending_row_for_str
get_pending_row_for_str(s) ==
    [cells |-> [i \in 0..4 |-> Pending(Some(to_ascii_uppercase(s[i + 1])))],
     current_cell |-> None]

\* The words of the unit tests.
TestWords ==
    { <<"h","e","a","r","t">>, <<"s","o","u","n","d">>, <<"e","a","r","t","h">>,
      <<"g","u","c","c","i">>, <<"c","a","c","t","i">>,
      <<"b","o","c","c","e">>, <<"c","o","a","s","t">> }

CheckWords == AlphabetWords \cup TestWords

InitCheck ==
    /\ game = Game_new(CHOOSE answer \in Words_new.answers : TRUE)
    /\ lastCall = "new"
    /\ ret = FALSE
    /\ nsubmitted = 0
    /\ \E guess \in CheckWords, answer \in CheckWords :
          /\ crow = get_pending_row_for_str(guess)
          /\ crow0 = crow
          /\ canswer = answer
    /\ cpc = "call"
    /\ ctodo = {}

\* Entry of check_guess: the guess is read off the row and both maps built.
CheckGuessBegin ==
    /\ cpc = "call"
    /\ BoardRow_get_final_word(crow) # None
    /\ ctodo' = DOMAIN get_char_map(BoardRow_get_final_word(crow)[1])
    /\ cpc' = "loop"
    /\ UNCHANGED <<crow, canswer, crow0, gameVars>>

\* One iteration of the outer for loop, on whichever letter the map yields.
CheckGuessLetter ==
    /\ cpc = "loop"
    /\ \E letter \in ctodo :
          /\ crow' = [crow EXCEPT !.cells =
                        check_letter(@, letter,
                            get_char_map(BoardRow_get_final_word(crow0)[1])[letter],
                            get_char_map(canswer))]
          /\ ctodo' = ctodo \ {letter}
    /\ UNCHANGED <<canswer, crow0, cpc, gameVars>>

\* The map is exhausted: check_guess returns.
CheckGuessEnd ==
    /\ cpc = "loop"
    /\ ctodo = {}
    /\ cpc' = "done"
    /\ UNCHANGED <<crow, canswer, crow0, ctodo, gameVars>>

NextCheck ==
    \/ CheckGuessBegin
    \/ CheckGuessLetter
    \/ CheckGuessEnd

SpecCheck == InitCheck /\ [][NextCheck]_vars

----------------------------------------------------------------------------
(* check_guess called on any row, next to the program (SpecCalls) *)

\* The five states a cell can be in, by name.
CellShapes == {"Empty", "Pending", "NotInWord", "InWord", "Correct"}

\* The cell of the given shape holding the letter (Empty holds none).
cell_of_shape(shape, letter) ==
    CASE shape = "Empty"     -> Pending(None)
      [] shape = "Pending"   -> Pending(Some(letter))
      [] shape = "NotInWord" -> NotInWord(letter)
      [] shape = "InWord"    -> InWord(letter)
      [] shape = "Correct"   -> Correct(letter)

\* A row whose cell i has shape shapes[i] and the i-th letter of the word,
\* in capitals as try_accept_letter stores it.  The cursor of a row that
\* has been typed in full or submitted is Some(5).
row_of_shapes(word, shapes) ==
    [cells |-> [i \in 0..4 |->
                  cell_of_shape(shapes[i], to_ascii_uppercase(word[i + 1]))],
     current_cell |-> Some(5)]

\* Words the rows are spelt with, and the answers they are checked against.
AnyRowWords ==
    { <<"a","b","b","a","b">>, <<"a","a","b","b","a">>,
      <<"g","u","c","c","i">>, <<"b","o","c","c","e">> }

AnyRowAnswers ==
    { <<"a","b","b","a","b">>, <<"c","a","c","t","i">>, <<"c","o","a","s","t">> }

InitCheckAny ==
    /\ game = Game_new(CHOOSE answer \in Words_new.answers : TRUE)
    /\ lastCall = "new"
    /\ ret = FALSE
    /\ nsubmitted = 0
    /\ \E word \in AnyRowWords, answer \in AnyRowAnswers,
          shapes \in [0..4 -> CellShapes] :
          /\ crow = row_of_shapes(word, shapes)
          /\ crow0 = crow
          /\ canswer = answer
    /\ cpc = "call"
    /\ ctodo = {}

\* Entry of check_guess on a row with a cell that holds no letter:
\* get_final_word is None and expect panics.
CheckGuessPanic ==
    /\ cpc = "call"
    /\ BoardRow_get_final_word(crow) = None
    /\ cpc' = "panic"
    /\ UNCHANGED <<crow, canswer, crow0, ctodo, gameVars>>

\* The program handles a key; no isolated call is in progress.
ProgramStep ==
    /\ cpc = "idle"
    /\ Next

NextCalls ==
    \/ ProgramStep
    \/ CheckGuessBegin
    \/ CheckGuessLetter
    \/ CheckGuessEnd
    \/ CheckGuessPanic

SpecCalls == (Init \/ InitCheckAny) /\ [][NextCalls]_vars

----------------------------------------------------------------------------
(* The three event handlers of Game called in any sequence (SpecGame) *)

\* What one call of a handler of Game leaves behind.  The count of checked
\* guesses belongs to the program's runs and is not kept here.
Called(call, r) ==
    /\ game' = r.game
    /\ lastCall' = call
    /\ ret' = r.ret
    /\ UNCHANGED <<nsubmitted, checkVars>>

CallAcceptLetter ==
    /\ cpc = "idle"
    /\ \E c \in Alphabet \cup {"A", "1"} :
          Called("try_accept_letter", Game_try_accept_letter(game, c))

CallDeleteLetter ==
    /\ cpc = "idle"
    /\ Called("try_delete_letter", Game_try_delete_letter(game))

CallSubmitGuess ==
    /\ cpc = "idle"
    /\ \E order \in SubmitOrders(game) :
          Called("try_submit_guess", Game_try_submit_guess(game, order))

NextGame ==
    \/ CallAcceptLetter
    \/ CallDeleteLetter
    \/ CallSubmitGuess

SpecGame == Init /\ [][NextGame]_vars

\* Indexing rows: [BoardRow; 6] panics when the index is not below 6.
Game_get_current_row_panics(g) == g.current_row \notin 0..5

\* Indexing cells: [Cell; 5] with the cursor panics when it is not below 5.
BoardRow_get_current_cell_panics(row) ==
    row.current_cell # None /\ row.current_cell[1] \notin 0..4

\* try_accept_letter reaches get_current_cell with the cursor as it is.
BoardRow_try_accept_letter_panics(row) ==
    /\ row.current_cell # None
    /\ row.current_cell[1] < 5
    /\ BoardRow_get_current_cell_panics(row)

\* try_delete_letter reaches get_current_cell with the cursor moved back.
BoardRow_try_delete_letter_panics(row) ==
    /\ row.current_cell # None
    /\ row.current_cell[1] > 0
    /\ BoardRow_get_current_cell_panics(
          [row EXCEPT !.current_cell = Some(row.current_cell[1] - 1)])

\* The expect at the entry of check_guess.
BoardRow_check_guess_panics(row) == BoardRow_get_final_word(row) = None

Game_try_accept_letter_panics(g, letter) ==
    /\ is_ascii_alphabetic(letter)
    /\ \/ Game_get_current_row_panics(g)
       \/ BoardRow_try_accept_letter_panics(Game_get_current_row(g))

Game_try_delete_letter_panics(g) ==
    \/ Game_get_current_row_panics(g)
    \/ BoardRow_try_delete_letter_panics(Game_get_current_row(g))

\* try_submit_guess indexes rows for get_final_word, for check_guess and,
\* after a miss above the last row, for the row it moves to.
Game_try_submit_guess_panics(g) ==
    \/ Game_get_current_row_panics(g)
    \/ LET row == Game_get_current_row(g)
           final == BoardRow_get_final_word(row)
       IN /\ final # None
          /\ Words_valid_guess(g.words, final[1])
          /\ \/ BoardRow_check_guess_panics(row)
             \/ /\ final[1] # g.answer
                /\ g.current_row < 5
                /\ Game_get_current_row_panics([g EXCEPT !.current_row = @ + 1])

----------------------------------------------------------------------------
(* Properties of check_guess (checked under SpecCheck) *)

\* The guess check_guess read off the row it was called on.
CheckedGuess == BoardRow_get_final_word(crow0)[1]

Count(L, word) == Cardinality({j \in 1..Len(word) : word[j] = L})

\* The letter a cell shows, as the guess spells it.
CellLetter(cell) == to_ascii_lowercase(cell.v[1])

\* Positions of the checked row marked Correct or InWord that hold L.
Marked(L) ==
    {i \in 0..4 : crow.cells[i].tag \in {"Correct", "InWord"}
                  /\ CellLetter(crow.cells[i]) = L}

Tags(row) == [i \in 1..5 |-> row.cells[i - 1].tag]

\* C1: after check_guess on a row of five pending letters, for every letter
\* the cells holding it that are Correct or InWord are at most as many as
\* the letter's occurrences in the answer.
C1_MarkedWithinAnswerCount ==
    cpc = "done" =>
        \A L \in Range(CheckedGuess) \cup Range(canswer) :
            Cardinality(Marked(L)) <= Count(L, canswer)

\* A letter the guess repeats more often than the answer holds it: the
\* marks use up the answer's occurrences and one cell is left NotInWord.
C1_Witness ==
    /\ cpc = "done"
    /\ \E L \in Range(canswer) :
          /\ Count(L, CheckedGuess) > Count(L, canswer)
          /\ Cardinality(Marked(L)) = Count(L, canswer)
          /\ \E i \in 0..4 : crow.cells[i] = NotInWord(to_ascii_uppercase(L))

\* The two-pass reference classification of position i (0-based) of G.
RefTag(G, A, i) ==
    LET L == G[i + 1]
        exact == {j \in 0..4 : G[j + 1] = L /\ A[j + 1] = L}
        before == {j \in 0..(i - 1) : G[j + 1] = L /\ A[j + 1] # L}
    IN IF A[i + 1] = L THEN "Correct"
       ELSE IF Cardinality(exact) + Cardinality(before) < Count(L, A) THEN "InWord"
       ELSE "NotInWord"

\* C2: check_guess gives every position the class of the two-pass reference
\* and keeps its letter; earth against heart is all InWord and sound against
\* heart all NotInWord.
C2_MatchesTwoPassReference ==
    cpc = "done" =>
        /\ \A i \in 0..4 :
              crow.cells[i] = [tag |-> RefTag(CheckedGuess, canswer, i),
                               v |-> crow0.cells[i].v]
        /\ (CheckedGuess = <<"e","a","r","t","h">> /\ canswer = <<"h","e","a","r","t">>)
              => Tags(crow) = <<"InWord", "InWord", "InWord", "InWord", "InWord">>
        /\ (CheckedGuess = <<"s","o","u","n","d">> /\ canswer = <<"h","e","a","r","t">>)
              => Tags(crow) = <<"NotInWord", "NotInWord", "NotInWord", "NotInWord", "NotInWord">>

\* earth has been checked against heart.
C2_Witness ==
    /\ cpc = "done"
    /\ CheckedGuess = <<"e","a","r","t","h">>
    /\ canswer = <<"h","e","a","r","t">>
    /\ \A i \in 0..4 : crow.cells[i].tag = "InWord"

\* Positions of the guess holding L away from L's places in the answer.
NonExact(L) == {i \in 0..4 : CheckedGuess[i + 1] = L /\ canswer[i + 1] # L}

\* C3: among the non-exact positions of a letter the InWord ones are the
\* leftmost, and the exact matches of the letter are counted first: gucci
\* against cacti and bocce against coast come out as the unit test says.
C3_LeftmostYellows ==
    cpc = "done" =>
        /\ \A L \in Range(CheckedGuess) :
              \A j \in NonExact(L) :
                 crow.cells[j].tag = "InWord" =>
                    /\ \A i \in NonExact(L) : i < j => crow.cells[i].tag = "InWord"
                    /\ Cardinality({e \in 0..4 : CheckedGuess[e + 1] = L
                                                 /\ canswer[e + 1] = L})
                         + Cardinality({i \in NonExact(L) : i < j}) < Count(L, canswer)
        /\ (CheckedGuess = <<"g","u","c","c","i">> /\ canswer = <<"c","a","c","t","i">>)
              => Tags(crow) = <<"NotInWord", "NotInWord", "Correct", "InWord", "Correct">>
        /\ (CheckedGuess = <<"b","o","c","c","e">> /\ canswer = <<"c","o","a","s","t">>)
              => Tags(crow) = <<"NotInWord", "Correct", "InWord", "NotInWord", "NotInWord">>

\* bocce has been checked against coast: of its two non-exact c the left
\* one is InWord and the right one NotInWord.
C3_Witness ==
    /\ cpc = "done"
    /\ CheckedGuess = <<"b","o","c","c","e">>
    /\ canswer = <<"c","o","a","s","t">>
    /\ crow.cells[2] = InWord("C")
    /\ crow.cells[3] = NotInWord("C")

\* C4: a guess equal to the answer is marked Correct at all five positions.
C4_ExactGuessAllCorrect ==
    (cpc = "done" /\ CheckedGuess = canswer) =>
        \A i \in 0..4 : crow.cells[i] = Correct(to_ascii_uppercase(canswer[i + 1]))

\* heart has been checked against heart.
C4_Witness ==
    /\ cpc = "done"
    /\ CheckedGuess = canswer
    /\ canswer = <<"h","e","a","r","t">>
    /\ crow.cells[0] = Correct("H")

----------------------------------------------------------------------------
(* Properties of the game (checked under Spec) *)

CurrentRow == Game_get_current_row(game)

\* The word the active row spells, when it is full.
CurrentWord == BoardRow_get_final_word(CurrentRow)

AllPendingLetters(row) ==
    \A i \in 0..4 : row.cells[i].tag = "Pending" /\ row.cells[i].v # None

\* This step is handle_key passing ENTER on to try_submit_guess with the
\* active row full of pending letters.
SubmitsFullRow ==
    /\ game.has_won = None
    /\ AllPendingLetters(CurrentRow)
    /\ lastCall' = "try_submit_guess"

\* C5: submitting a full row that spells the answer sets the outcome to won
\* on any row, the sixth included, and leaves the active row index alone.
C5_MatchingRowWins ==
    [][(SubmitsFullRow /\ CurrentWord = Some(game.answer)) =>
           /\ game'.has_won = Some(TRUE)
           /\ game'.current_row = game.current_row]_vars

\* The sixth row has just been submitted and spelt the answer.
C5_Witness ==
    /\ lastCall = "try_submit_guess"
    /\ game.current_row = 5
    /\ CurrentWord = Some(game.answer)
    /\ game.has_won = Some(TRUE)
    /\ nsubmitted = 6

\* C6: the outcome is lost exactly when six submissions have been accepted
\* and the sixth does not spell the answer; lost is never set with the
\* active row index below 5, fewer than six accepted submissions without a
\* match leave the game in progress, and a rejected submission counts for
\* nothing.
C6_LostAfterSixthMiss ==
    /\ [](/\ (game.has_won = Some(FALSE)) <=>
                (nsubmitted = 6 /\ CurrentWord # Some(game.answer))
          /\ game.has_won = Some(FALSE) => game.current_row = 5
          /\ (nsubmitted < 6 /\ game.has_won # Some(TRUE)) =>
                (game.has_won = None /\ game.current_row = nsubmitted)
          /\ nsubmitted \in 0..6)
    /\ [][(SubmitsFullRow /\ ~Words_valid_guess(game.words, CurrentWord[1])) =>
              /\ nsubmitted' = nsubmitted
              /\ game'.has_won = None
              /\ game'.current_row = game.current_row]_vars

\* The sixth accepted submission missed: the game is lost.
C6_Witness ==
    /\ lastCall = "try_submit_guess"
    /\ nsubmitted = 6
    /\ game.current_row = 5
    /\ CurrentWord # Some(game.answer)
    /\ game.has_won = Some(FALSE)

\* C7: submitting a full row whose word is not a valid guess leaves the rows
\* (five pending letters, cursor 5) and the active row index as they were
\* and the game in progress, sets the message to '<word>' is not a valid
\* word! with the word in lower case, returns true and uses up no turn.
C7_InvalidWordRejected ==
    [][(SubmitsFullRow /\ CurrentWord[1] \notin game.words.valid_guesses) =>
           LET w == CurrentWord[1] IN
           /\ game'.rows = game.rows
           /\ AllPendingLetters(Game_get_current_row(game'))
           /\ game'.current_row = game.current_row
           /\ Game_get_current_row(game').current_cell = Some(5)
           /\ game'.has_won = None
           /\ \A i \in 1..5 : w[i] \in Range(LowerAll)
           /\ game'.display_message =
                 Some(<<"'", w[1], w[2], w[3], w[4], w[5], "' is not a valid word!">>)
           /\ ret' = TRUE
           /\ nsubmitted' = nsubmitted]_vars

\* aaaaa, typed in capitals, has just been submitted on the second row and
\* rejected.
C7_Witness ==
    /\ lastCall = "try_submit_guess"
    /\ ret = TRUE
    /\ game.current_row = 1
    /\ nsubmitted = 1
    /\ \A i \in 0..4 : CurrentRow.cells[i] = Pending(Some("A"))
    /\ game.display_message =
          Some(<<"'", "a", "a", "a", "a", "a", "' is not a valid word!">>)
    /\ game.has_won = None

\* C8: once the outcome is won or lost, try_accept_letter and
\* try_delete_letter return false and change no cell and no cursor.
C8_TerminalEditsAreNoOps ==
    game.has_won # None =>
        /\ \A c \in TypedChars :
              LET r == Game_try_accept_letter(game, c) IN
              r.ret = FALSE /\ r.game.rows = game.rows
        /\ LET r == Game_try_delete_letter(game) IN
           r.ret = FALSE /\ r.game.rows = game.rows

FreshBoard(g) ==
    /\ g.current_row = 0
    /\ \A r \in 0..5 : \A i \in 0..4 : g.rows[r].cells[i] = Pending(None)
    /\ g.rows[0].current_cell = Some(0)
    /\ \A r \in 1..5 : g.rows[r].current_cell = None
    /\ g.display_message = None
    /\ g.has_won = None
    /\ g.answer \in La

\* C10: a restart happens only on a finished game and leaves a fresh board
\* with an answer from the pool, and it is the only key a finished game
\* reacts to.
C10_RestartGivesFreshGame ==
    /\ [][lastCall' = "restart" => (game.has_won # None /\ FreshBoard(game'))]_vars
    /\ [][game.has_won # None => (game' = game \/ lastCall' = "restart")]_vars
    /\ [][(game.has_won = None /\ game'.has_won = None) =>
             (game'.answer = game.answer
              /\ game'.current_row >= game.current_row)]_vars

\* A finished game has just been restarted.
C10_Witness ==
    /\ lastCall = "restart"
    /\ FreshBoard(game)
    /\ nsubmitted = 0

----------------------------------------------------------------------------
(* Properties of the board (checked under Spec) *)

\* A cell finalised by check_guess.
Submitted(cell) == cell.tag \in {"NotInWord", "InWord", "Correct"}

C12_RowsAroundActiveRow ==
    /\ \A r \in 0..5 : \A i \in 0..4 :
          /\ r < game.current_row => Submitted(game.rows[r].cells[i])
          /\ r > game.current_row => game.rows[r].cells[i] = Pending(None)
    /\ game.current_row \in 0..5

\* Three rows submitted, the fourth being typed, two rows to come.
C12_Witness ==
    /\ game.current_row = 3
    /\ game.has_won = None
    /\ \A r \in 0..2 : \A i \in 0..4 : Submitted(game.rows[r].cells[i])
    /\ game.rows[3].cells[1] = Pending(Some("B"))
    /\ \A r \in 4..5 : \A i \in 0..4 : game.rows[r].cells[i] = Pending(None)

\* C13 as stated: the active row is the only row with a cursor; every
\* other row, submitted or not yet reached, has current_cell None.
C13_OnlyActiveRowHasCursor ==
    \A r \in 0..5 :
       (game.rows[r].current_cell # None) <=> (r = game.current_row)

\* C13, amended: the active row has a cursor between 0 and 5, the rows not
\* yet reached have none, and a submitted row keeps the cursor 5 it had when
\* it was full, which designates none of its cells.
C13_CursorsByRowPosition ==
    \A r \in 0..5 :
       /\ r = game.current_row =>
             \E i \in 0..5 : game.rows[r].current_cell = Some(i)
       /\ r > game.current_row => game.rows[r].current_cell = None
       /\ r < game.current_row => game.rows[r].current_cell = Some(5)

\* Two rows submitted and left with cursor 5, the third being typed, the
\* rest without cursor.
C13_Witness ==
    /\ game.current_row = 2
    /\ game.rows[0].current_cell = Some(5)
    /\ game.rows[1].current_cell = Some(5)
    /\ game.rows[2].current_cell = Some(1)
    /\ \A r \in 3..5 : game.rows[r].current_cell = None

\* C14: within a game the active row index never goes down and moves only
\* by one, and only when try_submit_guess is given a full row whose word is
\* a valid guess other than the answer; every other step leaves it alone.
C14_ActiveRowAdvances ==
    [][lastCall' # "restart" =>
          \/ game'.current_row = game.current_row
          \/ /\ game'.current_row = game.current_row + 1
             /\ SubmitsFullRow
             /\ Words_valid_guess(game.words, CurrentWord[1])
             /\ CurrentWord[1] # game.answer
             /\ game'.has_won = None]_vars

\* A valid miss on the fifth row has just moved the game to the sixth.
C14_Witness ==
    /\ lastCall = "try_submit_guess"
    /\ ret = TRUE
    /\ game.current_row = 5
    /\ game.rows[5].current_cell = Some(0)
    /\ nsubmitted = 5
    /\ game.has_won = None

\* C15: while the game is in progress the cursor of the active row is
\* between 0 and 5 and counts its non-empty cells, which are the cells below
\* the cursor, all of them pending letters.
C15_CursorCountsLetters ==
    game.has_won = None =>
        /\ CurrentRow.current_cell # None
        /\ LET cursor == CurrentRow.current_cell[1]
               filled == {i \in 0..4 : CurrentRow.cells[i] # Pending(None)}
           IN /\ cursor \in 0..5
              /\ Cardinality(filled) = cursor
              /\ filled = {i \in 0..4 : i < cursor}
              /\ \A i \in filled : /\ CurrentRow.cells[i].tag = "Pending"
                                   /\ CurrentRow.cells[i].v # None

\* Letters typed and some deleted again on the second row: two are left.
C15_Witness ==
    /\ lastCall = "try_delete_letter"
    /\ ret = TRUE
    /\ game.has_won = None
    /\ game.current_row = 1
    /\ CurrentRow.current_cell = Some(2)
    /\ CurrentRow.cells[0] = Pending(Some("A"))
    /\ CurrentRow.cells[1] = Pending(Some("B"))
    /\ CurrentRow.cells[2] = Pending(None)

\* C16: a step in which try_accept_letter, try_delete_letter or
\* try_submit_guess returns false, or in which a finished game ignores a
\* key, leaves the whole game as it was, the message included.
C16_FalseReturnChangesNothing ==
    [][(/\ lastCall' \in {"try_accept_letter", "try_delete_letter",
                          "try_submit_guess", "ignored"}
        /\ ret' = FALSE)
       => game' = game]_vars

----------------------------------------------------------------------------
(* Contracts of the editing methods on a game in progress (under Spec) *)

\* The capital of an ASCII letter, in either case.
Capital(c) ==
    CHOOSE u \in Range(UpperAll) : to_ascii_lowercase(u) = to_ascii_lowercase(c)

\* C17: on a game in progress try_accept_letter(ch) returns true iff ch is
\* a letter and the cursor of the active row is below 5, and then it has
\* written Pending(capital of ch) at the cursor, moved the cursor on by one
\* and cleared the message, and nothing else.
C17_AcceptLetterContract ==
    game.has_won = None =>
        \A c \in TypedChars :
           LET r == Game_try_accept_letter(game, c)
               cursor == CurrentRow.current_cell[1]
           IN /\ r.ret <=> (c \in Range(LowerAll) \cup Range(UpperAll) /\ cursor < 5)
              /\ r.ret =>
                    r.game = [game EXCEPT
                                 !.display_message = None,
                                 !.rows[game.current_row].cells[cursor] =
                                     Pending(Some(Capital(c))),
                                 !.rows[game.current_row].current_cell =
                                     Some(cursor + 1)]

\* The fifth letter of the first row has just been accepted.
C17_Witness ==
    /\ lastCall = "try_accept_letter"
    /\ ret = TRUE
    /\ game.current_row = 0
    /\ CurrentRow.current_cell = Some(5)
    /\ CurrentRow.cells[4] = Pending(Some("B"))
    /\ game.display_message = None

\* C18: on a game in progress try_delete_letter returns true iff the cursor
\* of the active row is above 0, and then it has moved the cursor back by
\* one, emptied the cell there and cleared the message, and nothing else; a
\* delete after an accepted letter gives back the rows as they were.
C18_DeleteLetterContract ==
    game.has_won = None =>
        /\ LET r == Game_try_delete_letter(game)
               cursor == CurrentRow.current_cell[1]
           IN /\ r.ret <=> cursor > 0
              /\ r.ret =>
                    r.game = [game EXCEPT
                                 !.display_message = None,
                                 !.rows[game.current_row].cells[cursor - 1] =
                                     Pending(None),
                                 !.rows[game.current_row].current_cell =
                                     Some(cursor - 1)]
        /\ \A c \in TypedChars :
              LET a == Game_try_accept_letter(game, c) IN
              a.ret =>
                 LET d == Game_try_delete_letter(a.game) IN
                 d.ret /\ d.game.rows = game.rows

\* The fifth letter of the first row has just been deleted.
C18_Witness ==
    /\ lastCall = "try_delete_letter"
    /\ ret = TRUE
    /\ game.current_row = 0
    /\ CurrentRow.current_cell = Some(4)
    /\ CurrentRow.cells[3] = Pending(Some("A"))
    /\ CurrentRow.cells[4] = Pending(None)

----------------------------------------------------------------------------
(* The dictionary (checked under Spec) *)

RECURSIVE TypeWord(_, _)
\* The game after try_accept_letter has been called with each char of w.
TypeWord(g, w) ==
    IF w = <<>> THEN g
    ELSE TypeWord(Game_try_accept_letter(g, Head(w)).game, Tail(w))

\* The spellings of w in capitals and small letters.
CaseVariants(w) ==
    {[i \in 1..5 |-> IF i \in S THEN to_ascii_uppercase(w[i]) ELSE w[i]] :
        S \in SUBSET (1..5)}

\* Words put to valid_guess: every word of the alphabet in small letters
\* and every spelling of every dictionary word.
ProbeWords == AlphabetWords \cup UNION {CaseVariants(w) : w \in La \cup Ta}

\* The active row is empty and waits for a word.
AtEmptyRow ==
    /\ game.has_won = None
    /\ CurrentRow.current_cell = Some(0)

\* C19 as stated: valid_guess(word) is true iff word, compared without
\* regard to case, is in the union of the two lists.
C19_ValidGuessIgnoresCase ==
    \A w \in ProbeWords :
       Words_valid_guess(game.words, w) <=>
           (str_to_ascii_lowercase(w) \in La \cup Ta)

\* C19, amended: valid_guess(word) is true iff word as spelt is in the
\* union of the two lists; a guess is accepted without regard to the case
\* it was typed in because the row is put in lower case before the lookup:
\* a word typed on an empty row and submitted is checked iff its lower-case
\* spelling is in the union.
C19_ValidGuessIsExactMatch ==
    AtEmptyRow =>
       \A v \in ProbeWords :
          /\ Words_valid_guess(game.words, v) <=> (v \in La \cup Ta)
          /\ LET typed == TypeWord(game, v) IN
             \A order \in SubmitOrders(typed) :
                LET r == Game_try_submit_guess(typed, order) IN
                /\ r.checked <=> (str_to_ascii_lowercase(v) \in La \cup Ta)
                /\ ~r.checked <=>
                      r.game.display_message =
                         Some(InvalidWordMessage(str_to_ascii_lowercase(v)))

\* The word of the extended list has just been submitted on the first row
\* and accepted.
C19_Witness ==
    /\ lastCall = "try_submit_guess"
    /\ nsubmitted = 1
    /\ game.current_row = 1
    /\ BoardRow_get_final_word(game.rows[0]) = Some(<<"a","a","b","b","a">>)
    /\ \A i \in 0..4 : Submitted(game.rows[0].cells[i])
    /\ game.display_message = None

\* C20: the answer is one of the answers and so a valid guess, it stays the
\* same until the game is restarted, and typing it on an empty active row
\* and submitting is never rejected and wins.
C20_AnswerIsGuessable ==
    /\ [](/\ game.answer \in La
          /\ Words_valid_guess(game.words, game.answer)
          /\ AtEmptyRow =>
                LET typed == TypeWord(game, game.answer) IN
                \A order \in SubmitOrders(typed) :
                   LET r == Game_try_submit_guess(typed, order) IN
                   /\ r.checked
                   /\ r.ret
                   /\ r.game.has_won = Some(TRUE)
                   /\ r.game.display_message = None)
    /\ [][lastCall' # "restart" => game'.answer = game.answer]_vars

\* The answer has just been submitted on the third row and won.
C20_Witness ==
    /\ lastCall = "try_submit_guess"
    /\ game.current_row = 2
    /\ nsubmitted = 3
    /\ CurrentWord = Some(game.answer)
    /\ game.has_won = Some(TRUE)
    /\ game.display_message = Some(WinMessage)

----------------------------------------------------------------------------
(* Which rows check_guess runs on (checked under SpecCalls) *)

\* This step is try_submit_guess calling check_guess on the active row.
CallsCheckGuess == nsubmitted' = nsubmitted + 1

HasEmptyCell(row) == \E i \in 0..4 : row.cells[i] = Pending(None)

\* C21 as stated: try_submit_guess calls check_guess only on an active row
\* of five pending letters, and a call of check_guess on any other row (a
\* cell empty, or a cell already NotInWord, InWord or Correct) never gets
\* past its entry.
C21_OtherRowsFailFast ==
    /\ [][CallsCheckGuess => AllPendingLetters(CurrentRow)]_vars
    /\ [](cpc \in {"loop", "done"} => AllPendingLetters(crow0))

\* C21: try_submit_guess calls check_guess only on an active row of five
\* pending letters.  A call of check_guess panics at its entry exactly when
\* a cell of the row holds no letter, leaving the row as it was; on a row
\* with a letter in every cell it runs to the end, leaves every cell that
\* was already NotInWord, InWord or Correct as it was and gives every
\* pending cell the class of the two-pass reference for the word the whole
\* row spells.
C21_FailsFastOnlyOnEmptyCell ==
    /\ [][CallsCheckGuess => AllPendingLetters(CurrentRow)]_vars
    /\ [](cpc = "panic" => HasEmptyCell(crow0) /\ crow = crow0)
    /\ [](cpc \in {"loop", "done"} => ~HasEmptyCell(crow0))
    /\ [](cpc = "done" =>
            \A i \in 0..4 :
               crow.cells[i] =
                  IF Submitted(crow0.cells[i]) THEN crow0.cells[i]
                  ELSE [tag |-> RefTag(CheckedGuess, canswer, i),
                        v |-> crow0.cells[i].v])

\* check_guess has returned from a row that mixed submitted cells with
\* pending letters: BOCCE with B already Correct and the last C already
\* NotInWord, checked against cacti.
C21_Witness ==
    /\ cpc = "done"
    /\ canswer = <<"c","a","c","t","i">>
    /\ crow0.cells = [i \in 0..4 |->
                        CASE i = 0 -> Correct("B")
                          [] i = 1 -> Pending(Some("O"))
                          [] i = 2 -> Pending(Some("C"))
                          [] i = 3 -> NotInWord("C")
                          [] i = 4 -> Pending(Some("E"))]
    /\ Tags(crow) = <<"Correct", "NotInWord", "Correct", "NotInWord", "NotInWord">>

----------------------------------------------------------------------------
(* Iteration order of guess_chars (checked under SpecCheck) *)

\* C22: whichever order the letters of the guess were visited in, the row
\* check_guess leaves is the row every other visiting order of the distinct
\* letters leaves, and each of its five cells is NotInWord, InWord or
\* Correct with the letter it held.
C22_OrderDoesNotMatter ==
    cpc = "done" =>
        /\ LET guess_chars == get_char_map(CheckedGuess)
                answer_chars == get_char_map(canswer)
           IN \A order \in IterationOrders(DOMAIN guess_chars) :
                 check_letters(crow0.cells, order, guess_chars, answer_chars)
                    = crow.cells
        /\ \A i \in 0..4 :
              /\ Submitted(crow.cells[i])
              /\ crow.cells[i].v = crow0.cells[i].v

\* gucci has been checked against cacti: four distinct letters, 24 orders,
\* two of the letters missing from the answer.
C22_Witness ==
    /\ cpc = "done"
    /\ CheckedGuess = <<"g","u","c","c","i">>
    /\ canswer = <<"c","a","c","t","i">>
    /\ Cardinality(IterationOrders(Range(CheckedGuess))) = 24
    /\ Tags(crow) = <<"NotInWord", "NotInWord", "Correct", "InWord", "Correct">>

----------------------------------------------------------------------------
(* Absence of panics (checked under SpecGame) *)

\* C23: however try_accept_letter, try_delete_letter and try_submit_guess
\* are called on a game, the active row index stays within 0..5, every
\* cursor stays within 0..5, and none of the three calls would index a row
\* or a cell out of bounds or fail check_guess's expect; a letter is written
\* only with the cursor below 5, one is deleted only with the cursor above 0,
\* and try_submit_guess goes on to its checks only when get_final_word
\* returned a word.
C23_NoCallPanics ==
    /\ [](/\ game.current_row \in 0..5
          /\ \A r \in 0..5 :
                \/ game.rows[r].current_cell = None
                \/ game.rows[r].current_cell[1] \in 0..5
          /\ \A c \in TypedChars : ~Game_try_accept_letter_panics(game, c)
          /\ ~Game_try_delete_letter_panics(game)
          /\ ~Game_try_submit_guess_panics(game))
    /\ [][(lastCall' = "try_accept_letter" /\ ret') =>
             /\ CurrentRow.current_cell # None
             /\ CurrentRow.current_cell[1] \in 0..4]_vars
    /\ [][(lastCall' = "try_delete_letter" /\ ret') =>
             /\ CurrentRow.current_cell # None
             /\ CurrentRow.current_cell[1] \in 1..5]_vars
    /\ [][(lastCall' = "try_submit_guess" /\ ret') => CurrentWord # None]_vars

\* All six rows were used and the game lost; the last row has then been
\* deleted back to its first cell.
C23_Witness ==
    /\ game.has_won = Some(FALSE)
    /\ game.current_row = 5
    /\ lastCall = "try_delete_letter"
    /\ ret
    /\ game.rows[5].current_cell = Some(0)
    /\ \A i \in 0..4 : game.rows[5].cells[i] = Pending(None)

====
